---- MODULE Spec2Model ----
(***************************************************************************)
(* Voice I/O pipeline of the Gideon assistant:                             *)
(*   - EnhancedAudioManager (src/core/audio_manager_optimized.py):         *)
(*     calibration, listen_once, the continuous listening loop, the        *)
(*     command queue, statistics;                                          *)
(*   - GideonCore.speak (src/core/assistant_core.py): speech output.       *)
(* Python attribute and dictionary-key lookups that the constructor never  *)
(* prepares are modelled by their definedness: reading one raises          *)
(* AttributeError / KeyError, which unwinds like any other exception.      *)
(***************************************************************************)
EXTENDS Integers, Sequences, FiniteSets, TLC

(* ------------------------------ bounds --------------------------------- *)
MaxSpeakers == 2      \* concurrent callers of speak()
MaxThreads  == 2      \* listening-loop threads ever created
MaxCallers  == 1      \* tasks calling listen_once() directly
MaxHosts    == 2      \* tasks calling start/stop_continuous_listening
MaxConsumers == 2     \* tasks calling get_next_command
MaxListens  == 3      \* cap on stats['total_listens']
MaxSubs     == 2      \* cap on the callbacks subscribed to 'speech_started'
MaxSubsEnded == 1     \* cap on the callbacks subscribed to 'speech_ended'
MaxNow      == 220    \* cap on the clock
StartTime   == 100    \* time.time() when the manager is constructed
TickStep    == 60     \* granularity of the clock

Speakers      == 1..MaxSpeakers
LoopThreads   == 1..MaxThreads
DirectCallers == (MaxThreads + 1)..(MaxThreads + MaxCallers)
Tasks         == LoopThreads \cup DirectCallers
Hosts         == 1..MaxHosts
Consumers     == 1..MaxConsumers
\* the tasks calling the event system: the speech thread emits, the
\* interface subscribes and unsubscribes
Emitters      == {"speech", "interface"}

(* ------------------------ AudioConfig defaults ------------------------- *)
ENERGY_THRESHOLD        == 250
AUTO_CALIBRATE_INTERVAL == 60
MAX_RETRIES             == 3
\* RETRY_DELAY = 1.0 s, in tenths of a second
RETRY_DELAY             == 10
LANGUAGE                == "fr-FR"
ALTERNATIVE_LANGUAGES   == <<"en-US", "en-GB">>
\* WAKE_WORD_THRESHOLD = 0.75 = ThresholdNum / ThresholdDen
ThresholdNum == 3
ThresholdDen == 4

\* the loop's delays, in tenths of a second: the growth per failure (0.3),
\* the upper limit (3.0 s) and the pause after a command (0.3 s)
BackoffTenths == 3
DelayCap      == 30
SuccessPause  == 3

(* ------------------------------ inputs --------------------------------- *)
\* ambient energies that adjust_for_ambient_noise may derive
Energies == {50, 640, 1500}
\* transcripts the speech-to-text service may return (character sequences)
TxGideon == <<"G", "i", "d", "e", "o", "n">>
TxGideo  == <<"g", "i", "d", "e", "o">>
TxOn     == <<"o", "n">>
\* (the pipeline is run with an exact wake word and a non-wake utterance;
\* the detector is applied to more texts on its own)
Transcripts == {TxGideon, TxOn}
\* phrases handed to WakeWordDetector(wake_words, threshold)
ConfiguredWakeWords == << <<"g", "i", "d", "e", "o", "n">> >>

(* --------------------------- text helpers ------------------------------ *)
Min(a, b) == IF a < b THEN a ELSE b

\* str.lower() on the characters that occur in the transcripts
LowerChar(c) ==
  CASE c = "G" -> "g"
    [] c = "H" -> "h"
    [] c = "I" -> "i"
    [] c = "D" -> "d"
    [] c = "E" -> "e"
    [] c = "O" -> "o"
    [] c = "N" -> "n"
    [] OTHER -> c

Lower(s) == [i \in 1..Len(s) |-> LowerChar(s[i])]

RECURSIVE LStrip(_)
LStrip(s) == IF s # <<>> /\ Head(s) = " " THEN LStrip(Tail(s)) ELSE s

RECURSIVE RStrip(_)
RStrip(s) ==
  IF s # <<>> /\ s[Len(s)] = " " THEN RStrip(SubSeq(s, 1, Len(s) - 1)) ELSE s

\* str.strip()
Strip(s) == RStrip(LStrip(s))

\* variant of Contains that looks at the start of t only
Contains_at_start(t, w) == Len(w) <= Len(t) /\ SubSeq(t, 1, Len(w)) = w

\* Python's  w in t  for strings
Contains(t, w) ==
  \E i \in 1..(Len(t) - Len(w) + 1) : SubSeq(t, i, i + Len(w) - 1) = w

\* length of the common run of a[i..ahi] and b[j..bhi] (1-based, inclusive)
RECURSIVE RunLen(_, _, _, _, _, _)
RunLen(a, b, i, j, ahi, bhi) ==
  IF i > ahi \/ j > bhi \/ a[i] # b[j] THEN 0
  ELSE 1 + RunLen(a, b, i + 1, j + 1, ahi, bhi)

\* difflib.SequenceMatcher.find_longest_match without junk: the longest
\* block, earliest in a, then earliest in b; <<i, j, k>>
find_longest_match(a, b, alo, ahi, blo, bhi) ==
  LET Cand == {<<i, j>> : i \in alo..ahi, j \in blo..bhi}
      K(c) == RunLen(a, b, c[1], c[2], ahi, bhi)
      Better(c, d) ==
        \/ K(c) > K(d)
        \/ K(c) = K(d) /\ c[1] < d[1]
        \/ K(c) = K(d) /\ c[1] = d[1] /\ c[2] <= d[2]
  IN IF Cand = {} THEN <<alo, blo, 0>>
     ELSE LET best == CHOOSE c \in Cand : \A d \in Cand : Better(c, d)
          IN <<best[1], best[2], K(best)>>

\* total size of difflib's matching blocks of a[alo..ahi] and b[blo..bhi]
RECURSIVE MatchSize(_, _, _, _, _, _)
MatchSize(a, b, alo, ahi, blo, bhi) ==
  LET m == find_longest_match(a, b, alo, ahi, blo, bhi)
  IN IF m[3] = 0 THEN 0
     ELSE m[3] + MatchSize(a, b, alo, m[1] - 1, blo, m[2] - 1)
               + MatchSize(a, b, m[1] + m[3], ahi, m[2] + m[3], bhi)

\* SequenceMatcher(None, a, b).ratio() as the fraction <<2*M, T>>
\* (1.0 when both strings are empty)
ratio(a, b) ==
  IF Len(a) + Len(b) = 0 THEN <<1, 1>>
  ELSE <<2 * MatchSize(a, b, 1, Len(a), 1, Len(b)), Len(a) + Len(b)>>

\* fraction comparisons (denominators positive)
FracGE(x, y) == x[1] * y[2] >= y[1] * x[2]
FracGT(x, y) == x[1] * y[2] > y[1] * x[2]

\* f"{r:.2f}" as hundredths: round to nearest, exact ties to even
Hundredths(r) ==
  LET n == 100 * r[1]
      q == n \div r[2]
      rem2 == 2 * (n % r[2])
  IN IF rem2 > r[2] THEN q + 1
     ELSE IF rem2 < r[2] THEN q
     ELSE IF q % 2 = 0 THEN q ELSE q + 1

NoMatch == [is_wake |-> FALSE, phrase |-> <<>>, fuzzy |-> FALSE, score |-> 0]

\* WakeWordDetector.__init__: wake_words lower-cased and stripped
DetectorWords(words) == [i \in 1..Len(words) |-> Strip(Lower(words[i]))]

\* fuzzy loop of detect_wake_word: state <<best_match index, best_ratio>>
RECURSIVE FuzzyScan(_, _, _, _)
FuzzyScan(words, text_lower, i, best) ==
  IF i > Len(words) THEN best
  ELSE LET r == ratio(words[i], text_lower)
       IN IF FracGT(r, best[2]) /\ FracGE(r, <<ThresholdNum, ThresholdDen>>)
            THEN FuzzyScan(words, text_lower, i + 1, <<i, r>>)
            ELSE FuzzyScan(words, text_lower, i + 1, best)

\* WakeWordDetector.detect_wake_word(text) -> (is_wake, matched)
\* matched is the phrase, or the phrase with " (fuzzy: 0.xx)" (score)
detect_wake_word(words, text) ==
  IF text = <<>> THEN NoMatch
  ELSE
    LET text_lower == Strip(Lower(text))
        hits == {i \in 1..Len(words) : Contains(text_lower, words[i])}
    IN IF hits # {}
         THEN LET i == CHOOSE h \in hits : \A g \in hits : h <= g
              IN [is_wake |-> TRUE, phrase |-> words[i], fuzzy |-> FALSE, score |-> 0]
         ELSE LET best == FuzzyScan(words, text_lower, 1, <<0, <<0, 1>> >>)
              IN IF best[1] # 0 /\ words[best[1]] # <<>>
                   THEN [is_wake |-> TRUE, phrase |-> words[best[1]],
                         fuzzy |-> TRUE, score |-> Hundredths(best[2])]
                   ELSE NoMatch

(* ------------------------ speech output state -------------------------- *)
VARIABLES
  is_speaking,   \* GideonCore.is_speaking
  spc,           \* per speak() call: position of its _speak thread
  sprio,         \* per speak() call: the priority argument
  playing,       \* utterances of GideonCore.tts currently audible
  tts_engine,    \* EnhancedAudioManager.tts_engine is not None
  amspc,         \* per EnhancedAudioManager.speak() call: position
  amres,         \* per EnhancedAudioManager.speak() call: last return value
  amPlaying,     \* utterances of EnhancedAudioManager.tts_engine audible
  interrupted    \* history, per speak() call: the calls in progress that its
                 \* tts.stop() was meant to end

speakVars == <<is_speaking, spc, sprio, playing, tts_engine, amspc, amres, amPlaying,
               interrupted>>

(* ------------------------- pipeline state ------------------------------ *)
VARIABLES
  recognizer,           \* self.recognizer is not None
  microphone,           \* self.microphone is not None
  attrs,                \* attributes present on the manager besides those __init__ sets
  stat_keys,            \* keys present in self.stats
  energy_threshold,     \* self.recognizer.energy_threshold
  last_calibration,     \* self.last_calibration
  now,                  \* time.time()
  consecutive_failures, \* self.consecutive_failures
  stats,                \* self.stats (values of the keys in stat_keys)
  is_listening,         \* self.is_listening
  listen_thread,        \* self.listen_thread (0 = None)
  voice_queue,          \* self.voice_queue
  tpc,                  \* position of each task in the loop / in listen_once
  tret,                 \* value listen_once handed to each task
  tstart,               \* start_time of each task's listen_once call
  mic_holder,           \* tasks inside  with self.microphone as source
  hpc,                  \* position of each start/stop caller
  hres,                 \* each start/stop caller's last call: "ok", "raised", or
                        \* "unavailable" (start refused with a warning)
  cpc,                  \* position of each consumer
  cres,                 \* outcome of each consumer's last get_next_command
  discarded,            \* history: commands cleanup() took off the queue
  pushed,               \* history: commands put on the queue, in order
  delivered,            \* history: commands returned by get_next_command
  captured,             \* history: number of VoiceCommands constructed
  su_run,               \* history: length of the current run of cycles in which
                        \* the recognition service was unavailable
  resp_total,           \* history: sum of the response_time values of the
                        \* successful recognitions
  delay,                \* per loop thread: the time.sleep() it is in, in tenths
                        \* of a second (0 when not sleeping)
  wake_captured,        \* history: number of VoiceCommands constructed with
                        \* is_wake_word = True
  cycles,               \* history: number of listen_once calls made with
                        \* recognizer and microphone available
  mic_contended,        \* history: some  with self.microphone  was entered
                        \* while the microphone's context was already entered
  dres,                 \* the latest direct call of auto_calibrate_microphone,
                        \* test_microphone or get_stats and what it returned
  probe_in,             \* a function of the program applied on its own: its
                        \* name and arguments
  probe_out,            \* the result of that application, once made
  listeners,            \* EventSystem._listeners: per event type the callbacks
  ev_lock,              \* EventSystem._lock: the task holding it, or "free"
  estack                \* per task: its calls into the event system, innermost
                        \* last (callbacks call back into it)

\* what no operation of the manager changes: the equipment it was built with
\* and the function applications made beside it
mgrVars  == <<recognizer, microphone, attrs, stat_keys>>
evVars   == <<listeners, ev_lock, estack>>
hwVars   == <<mgrVars, evVars>>
envVars  == <<hwVars, probe_in, probe_out>>
calVars  == <<energy_threshold, last_calibration>>
loopVars == <<is_listening, listen_thread>>
taskVars == <<tpc, tret, tstart, mic_holder>>
hostVars == <<hpc, hres>>
qVars    == <<voice_queue, cpc, cres, pushed, delivered, discarded>>
cycleVars == <<captured, su_run, resp_total, delay, wake_captured>>
callVars == <<cycles, mic_contended, dres>>
histVars == <<cycleVars, callVars>>
pipeVars == <<envVars, calVars, now, consecutive_failures, stats, loopVars,
              taskVars, hostVars, qVars, histVars>>

\* keys of the stats dictionary written in __init__
InitStatKeys == {"total_listens", "successful_recognitions", "failed_recognitions",
                 "wake_words_detected", "last_calibration", "consecutive_failures"}
\* keys the methods use that __init__ does not create
LateStatKeys == {"avg_response_time", "failures", "calibrations"}
\* attributes the methods use that __init__ does not create
LateAttrs == {"is_listening", "is_speaking", "listen_thread", "voice_queue",
              "wake_word_detector"}

Languages == <<LANGUAGE>> \o ALTERNATIVE_LANGUAGES

\* threshold validation bounds and replacement values of auto_calibrate_microphone
MinBound    == 100
LowDefault  == 200
MaxBound    == 1000
HighDefault == 800

\* variant of validate_threshold that keeps a value above the upper bound
validate_threshold_no_upper(new_threshold) ==
  IF new_threshold < MinBound THEN LowDefault ELSE new_threshold

\* threshold validation of auto_calibrate_microphone
validate_threshold(new_threshold) ==
  IF new_threshold < MinBound THEN LowDefault
  ELSE IF new_threshold > MaxBound THEN HighDefault
  ELSE new_threshold

\* no direct call has been made yet
NoCall == [op |-> "none", ret |-> "none"]

NoCmd == [text |-> <<>>, confidence |-> 1, timestamp |-> 0, language |-> "",
          is_wake_word |-> FALSE, wake_word_matched |-> NoMatch]
\* what a listen_once call handed to its caller: kind is "none" (None),
\* "cmd" (a VoiceCommand) or "raised" (an exception left the call); why
\* records what the collaborators did in that cycle: "unavailable" (no
\* recognizer or microphone), "mic_busy", "silence", "device_error",
\* "not_understood", "service_unavailable" or "transcript"
RetNone(why)   == [kind |-> "none", cmd |-> NoCmd, why |-> why]
RetRaised(why) == [kind |-> "raised", cmd |-> NoCmd, why |-> why]
RetCmd(c)      == [kind |-> "cmd", cmd |-> c, why |-> "transcript"]

RECURSIVE GCD(_, _)
GCD(a, b) == IF b = 0 THEN a ELSE GCD(b, a % b)

Reduce(f) == LET g == GCD(f[1], f[2]) IN IF g = 0 THEN f ELSE <<f[1] \div g, f[2] \div g>>

\* ((current_avg * (total_success - 1)) + response_time) / total_success
RunningAvg(current_avg, total_success, response_time) ==
  Reduce(<<current_avg[1] * (total_success - 1) + response_time * current_avg[2],
           current_avg[2] * total_success>>)

(* ----------------------------- event system ---------------------------- *)
EventTypes == {"speech_started", "speech_ended"}
\* callbacks, named by what they do when called: return, raise, subscribe a
\* plain callback to the event being delivered, unsubscribe one from it, or
\* emit 'speech_ended'
Callbacks == {"plain", "raises", "subscribes", "unsubscribes", "emits"}

\* EventSystem.__init__
EventInit ==
  /\ listeners = [ty \in EventTypes |-> <<>>]
  /\ ev_lock = "free"
  /\ estack = [e \in Emitters |-> <<>>]

\* the callbacks subscribed to an event type: those of 'speech_ended', which
\* a callback emits, emit nothing themselves
Subscribable(ty) ==
  IF ty = "speech_ended" THEN {"plain"} ELSE Callbacks
\* the cap on the callbacks subscribed to an event type
MaxSubsOf(ty) == IF ty = "speech_ended" THEN MaxSubsEnded ELSE MaxSubs

\* a call of subscribe / unsubscribe / emit about to take the lock
Frame(op, ty, cb) ==
  [op |-> op, type |-> ty, cb |-> cb, pc |-> "lock", snap |-> <<>>, i |-> 0,
   log |-> <<>>]

Top(e) == estack[e][Len(estack[e])]
SetTop(st, f) == [st EXCEPT ![Len(st)] = f]

\* the length the list of an event type has once the subscribe calls under
\* way have appended
SubscribedOrPending(ty) ==
  Len(listeners[ty])
  + Cardinality({e \in Emitters :
       /\ estack[e] # <<>>
       /\ Top(e).op = "subscribe"
       /\ Top(e).type = ty})

\* list.remove(callback): the first occurrence goes; ValueError is passed over
RECURSIVE list_remove(_, _)
list_remove(ls, cb) ==
  IF ls = <<>> THEN <<>>
  ELSE IF Head(ls) = cb THEN Tail(ls)
  ELSE <<Head(ls)>> \o list_remove(Tail(ls), cb)

\* variant of delivery_list that iterates over the list itself
delivery_list_live(snap, live) == live

\* the list emit iterates over: the copy made under the lock
delivery_list(snap, live) == snap

\* the index emit goes on with after a callback returned or raised: the
\* except clause prints and the loop continues
after_callback(i, outcome) == i + 1

\* the innermost call of task e has returned: the callback that made it, if
\* any, returns to the emit that called it
return_to_caller(st) ==
  LET rest == SubSeq(st, 1, Len(st) - 1)
  IN IF rest = <<>> THEN rest
     ELSE SetTop(rest, [rest[Len(rest)] EXCEPT
                          !.i = after_callback(@, "returned")])

PipeInit ==
  /\ recognizer \in BOOLEAN
  /\ microphone = recognizer
  /\ attrs \in {{}, LateAttrs}
  /\ stat_keys \in {InitStatKeys, InitStatKeys \cup LateStatKeys}
  /\ now = StartTime
  \* __init__ runs auto_calibrate_microphone once when the microphone exists;
  \* stats['calibrations'] does not exist yet, so the count stays untouched
  /\ \/ /\ energy_threshold = ENERGY_THRESHOLD
        /\ last_calibration = 0
     \/ /\ microphone
        /\ \E e \in Energies : energy_threshold = validate_threshold(e)
        /\ last_calibration = now
  /\ consecutive_failures = 0
  /\ stats = [total_listens |-> 0, successful_recognitions |-> 0,
              failed_recognitions |-> 0, wake_words_detected |-> 0,
              failures |-> 0, calibrations |-> 0, avg_response_time |-> <<0, 1>>]
  /\ is_listening = FALSE
  /\ listen_thread = 0
  /\ voice_queue = <<>>
  /\ tpc = [t \in Tasks |-> IF t \in LoopThreads THEN "unborn" ELSE "idle"]
  /\ tret = [t \in Tasks |-> RetNone("")]
  /\ tstart = [t \in Tasks |-> 0]
  /\ mic_holder = {}
  /\ hpc = [h \in Hosts |-> "idle"]
  /\ hres = [h \in Hosts |-> "ok"]
  /\ cpc = [c \in Consumers |-> "idle"]
  /\ cres = [c \in Consumers |-> "none"]
  /\ discarded = <<>>
  /\ pushed = <<>>
  /\ delivered = <<>>
  /\ captured = 0
  /\ su_run = 0
  /\ resp_total = 0
  /\ delay = [t \in LoopThreads |-> 0]
  /\ EventInit
  /\ wake_captured = 0
  /\ cycles = 0
  /\ mic_contended = FALSE
  /\ dres = NoCall

(* --------------------------- calibration ------------------------------- *)
\* variant of _should_recalibrate that waits for a fourth failure
should_recalibrate_late(cf) ==
  \/ now - last_calibration > AUTO_CALIBRATE_INTERVAL
  \/ cf > 3

\* EnhancedAudioManager._should_recalibrate
should_recalibrate(cf) ==
  \/ now - last_calibration > AUTO_CALIBRATE_INTERVAL
  \/ cf >= 3

\* variant of auto_calibrate_microphone without the availability test
auto_calibrate_microphone_unguarded(cal) ==
  {[th |-> validate_threshold(e), lc |-> now,
    cal |-> IF "calibrations" \in stat_keys THEN cal + 1 ELSE cal,
    ret |-> "calibrations" \in stat_keys, sampled |-> TRUE] : e \in Energies}

\* EnhancedAudioManager.auto_calibrate_microphone as the set of its outcomes
\* [th, lc, cal, ret, sampled]: threshold, last_calibration, stats['calibrations'],
\* return value, and whether adjust_for_ambient_noise produced a value.
\* Entering the microphone's context while it is already entered raises, as does
\* a failing device; every exception is caught and turns into  return False.
auto_calibrate_microphone(cal) ==
  LET keep == [th |-> energy_threshold, lc |-> last_calibration, cal |-> cal,
               ret |-> FALSE, sampled |-> FALSE]
  IN IF ~recognizer \/ ~microphone THEN {keep}
     ELSE IF mic_holder # {} THEN {keep}
     ELSE {keep} \cup
          {[th |-> validate_threshold(e), lc |-> now,
            cal |-> IF "calibrations" \in stat_keys THEN cal + 1 ELSE cal,
            ret |-> "calibrations" \in stat_keys, sampled |-> TRUE] : e \in Energies}

(* ----------------------------- listen_once ----------------------------- *)
\* listen_once returns r to task t
Return(t, r) ==
  /\ tpc' = [tpc EXCEPT ![t] = IF t \in LoopThreads THEN "lp_after" ELSE "idle"]
  /\ tret' = [tret EXCEPT ![t] = r]

\* an exception leaves listen_once in task t: a loop thread dies of it
Raise(t, why) ==
  /\ tpc' = [tpc EXCEPT ![t] = IF t \in LoopThreads THEN "crashed" ELSE "idle"]
  /\ tret' = [tret EXCEPT ![t] = RetRaised(why)]

\* "Gestion des echecs": the statements after the try block, entered with the
\* counter cf and the statistics st
failure_tail(t, cf, st, why) ==
  /\ consecutive_failures' = cf
  /\ IF "failures" \notin stat_keys
       THEN /\ stats' = st
            /\ Raise(t, why)
       ELSE /\ stats' = [st EXCEPT !.failures = @ + 1]
            /\ IF cf >= MAX_RETRIES
                 THEN /\ tpc' = [tpc EXCEPT ![t] = "lo_pause"]
                      /\ tret' = [tret EXCEPT ![t] = RetNone(why)]
                 ELSE Return(t, RetNone(why))

\* variant of count_listen that counts nothing
count_listen_never(st) == st

\* self.stats['total_listens'] += 1
count_listen(st) == [st EXCEPT !.total_listens = @ + 1]

\* listen_once from its entry to the start of recognizer.listen(): the
\* availability test, total_listens, the calibration check and the entry into
\* the microphone's context.  Entering a context that is already entered
\* raises, which the  except Exception  clause counts as a failure.
listen_once_begin(t) ==
  IF ~recognizer \/ ~microphone
    THEN /\ Return(t, RetNone("unavailable"))
         /\ UNCHANGED <<stats, calVars, mic_holder, consecutive_failures, tstart,
                        cycles, mic_contended>>
    ELSE \E o \in (IF should_recalibrate(consecutive_failures)
                     THEN auto_calibrate_microphone(stats.calibrations)
                     ELSE {[th |-> energy_threshold, lc |-> last_calibration,
                            cal |-> stats.calibrations, ret |-> FALSE,
                            sampled |-> FALSE]}) :
           LET st == [count_listen(stats) EXCEPT !.calibrations = o.cal]
           IN /\ tstart' = [tstart EXCEPT ![t] = now]
              /\ cycles' = cycles + 1
              /\ mic_contended' = (mic_contended \/ mic_holder # {})
              /\ energy_threshold' = o.th
              /\ last_calibration' = o.lc
              /\ IF mic_holder # {}
                   THEN /\ failure_tail(t, consecutive_failures + 1, st, "mic_busy")
                        /\ UNCHANGED mic_holder
                   ELSE /\ mic_holder' = {t}
                        /\ tpc' = [tpc EXCEPT ![t] = "lo_listen"]
                        /\ stats' = st
                        /\ UNCHANGED <<tret, consecutive_failures>>

\* results of recognize_google for one language: a transcript or one of the
\* two exceptions the language loop catches
UnknownValueError == <<"?">>
RequestError == <<"!">>
RecOutcomes == Transcripts \cup {UnknownValueError, RequestError}
IsTranscript(r) == r \notin {UnknownValueError, RequestError}

\* what the service answers per language; a language behind the one that
\* answered is never asked, its entry is immaterial and fixed
ServiceAnswers ==
  {res \in [1..Len(Languages) -> RecOutcomes] :
     \A i, j \in 1..Len(Languages) :
       (i < j /\ IsTranscript(res[i])) => res[j] = UnknownValueError}

\* variant of language_loop without the break: every language is asked and
\* the last transcript is kept
RECURSIVE language_loop_nobreak(_, _)
language_loop_nobreak(res, i) ==
  IF i > Len(Languages) THEN [text |-> <<>>, index |-> 0, asked |-> Len(Languages)]
  ELSE LET rest == language_loop_nobreak(res, i + 1)
       IN IF rest.index = 0 /\ IsTranscript(res[i])
            THEN [text |-> res[i], index |-> i, asked |-> Len(Languages)]
            ELSE rest

\* the language loop from language i on, for the answers res of the service:
\* text (<<>> for None), the index of the language that gave it (0 if none)
\* and the number of languages asked
RECURSIVE language_loop(_, _)
language_loop(res, i) ==
  IF i > Len(Languages) THEN [text |-> <<>>, index |-> 0, asked |-> Len(Languages)]
  ELSE IF IsTranscript(res[i]) THEN [text |-> res[i], index |-> i, asked |-> i]
  ELSE language_loop(res, i + 1)

\* the language loop: index of the first language whose call returns, 0 if none
first_returning(res) == language_loop(res, 1).index

\* self.wake_word_detector.detect_wake_word, tabulated over the transcripts
wake_word_detector ==
  [x \in Transcripts |-> detect_wake_word(DetectorWords(ConfiguredWakeWords), x)]

\* the language field given to the VoiceCommand
command_language(i) == LANGUAGE

\* variant of count_wake_word that counts every recognised utterance
count_wake_word_always(st, is_wake) == [st EXCEPT !.wake_words_detected = @ + 1]

\* if is_wake: self.stats['wake_words_detected'] += 1
count_wake_word(st, is_wake) ==
  IF is_wake THEN [st EXCEPT !.wake_words_detected = @ + 1] ELSE st

\* listen_once from the language loop to its return, for the answers res
recognize(t, res) ==
  LET i    == first_returning(res)
      text == IF i = 0 THEN <<>> ELSE res[i]
      st1  == [stats EXCEPT !.successful_recognitions = @ + 1]
      response_time == now - tstart[t]
      st2  == [st1 EXCEPT !.avg_response_time =
                 RunningAvg(@, st1.successful_recognitions, response_time)]
      det  == wake_word_detector[text]
      st3  == count_wake_word(st2, det.is_wake)
      command == [text |-> text, confidence |-> 1, timestamp |-> captured + 1,
                  language |-> command_language(i),
                  is_wake_word |-> det.is_wake, wake_word_matched |-> det]
  IN IF text = <<>>
       THEN LET unavailable == \E k \in 1..Len(Languages) : res[k] = RequestError
            IN /\ Return(t, RetNone(IF unavailable THEN "service_unavailable"
                                                     ELSE "not_understood"))
               /\ su_run' = IF unavailable THEN su_run + 1 ELSE 0
               /\ UNCHANGED <<consecutive_failures, stats, captured, wake_captured,
                              resp_total>>
       ELSE /\ su_run' = 0
            /\ resp_total' = resp_total + response_time
            /\ IF "avg_response_time" \notin stat_keys
                 THEN /\ failure_tail(t, 1, st1, "transcript")
                      /\ UNCHANGED <<captured, wake_captured>>
                 ELSE IF "wake_word_detector" \notin attrs
                   THEN /\ failure_tail(t, 1, st2, "transcript")
                        /\ UNCHANGED <<captured, wake_captured>>
                   ELSE /\ consecutive_failures' = 0
                        /\ stats' = st3
                        /\ captured' = captured + 1
                        /\ wake_captured' =
                             IF command.is_wake_word THEN wake_captured + 1
                                                     ELSE wake_captured
                        /\ Return(t, RetCmd(command))

\* variant of on_wait_timeout that treats silence as a failure
on_wait_timeout_counted(t) ==
  /\ failure_tail(t, consecutive_failures + 1, stats, "silence")
  /\ su_run' = 0
  /\ UNCHANGED <<captured, wake_captured, resp_total>>

\* except sr.WaitTimeoutError: return None
on_wait_timeout(t) ==
  /\ Return(t, RetNone("silence"))
  /\ su_run' = 0
  /\ UNCHANGED <<consecutive_failures, stats, captured, wake_captured, resp_total>>

\* except Exception: the counter is incremented, then the failure handling
on_unexpected_error(t) ==
  /\ failure_tail(t, consecutive_failures + 1, stats, "device_error")
  /\ su_run' = 0
  /\ UNCHANGED <<captured, wake_captured, resp_total>>

\* self.recognizer.listen(source, timeout, phrase_time_limit) finishes with
\* silence (WaitTimeoutError), with a device error, or with audio that is
\* then recognised; the microphone's context is left on every path
lo_listen(t) ==
  /\ tpc[t] = "lo_listen"
  /\ mic_holder' = mic_holder \ {t}
  /\ \/ on_wait_timeout(t)
     \/ on_unexpected_error(t)
     \/ \E res \in ServiceAnswers : recognize(t, res)
  /\ UNCHANGED <<envVars, calVars, now, loopVars, tstart, hostVars, qVars, delay,
                 callVars, speakVars>>

\* the extended pause of listen_once: time.sleep(5.0), then the counter is reset
lo_pause(t) ==
  /\ tpc[t] = "lo_pause"
  /\ consecutive_failures' = 0
  /\ Return(t, tret[t])
  /\ UNCHANGED <<envVars, calVars, now, stats, loopVars, tstart, mic_holder,
                 hostVars, qVars, histVars, speakVars>>

\* a caller (test, host program) invokes listen_once directly
call_listen_once(t) ==
  /\ t \in DirectCallers
  /\ tpc[t] = "idle"
  /\ stats.total_listens < MaxListens
  /\ listen_once_begin(t)
  /\ UNCHANGED <<envVars, now, loopVars, hostVars, qVars, cycleVars, dres, speakVars>>

\* a caller invokes auto_calibrate_microphone directly
call_auto_calibrate ==
  /\ stats.calibrations < MaxListens
  /\ \E o \in auto_calibrate_microphone(stats.calibrations) :
       /\ energy_threshold' = o.th
       /\ last_calibration' = o.lc
       /\ stats' = [stats EXCEPT !.calibrations = o.cal]
       /\ dres' = [op |-> "auto_calibrate_microphone", ret |-> o.ret]
  /\ mic_contended' = (mic_contended \/ (recognizer /\ microphone /\ mic_holder # {}))
  /\ UNCHANGED <<envVars, now, consecutive_failures, loopVars, taskVars,
                 hostVars, qVars, cycleVars, cycles, speakVars>>

\* test_microphone up to the start of recognizer.listen(): the availability
\* test and the entry into the microphone's context, inside which
\* auto_calibrate_microphone is called when _should_recalibrate() says so.
\* That inner call enters the context a second time, which raises; the call
\* catches it and returns False without having changed anything.
call_test_microphone(t) ==
  /\ t \in DirectCallers
  /\ tpc[t] = "idle"
  /\ IF ~recognizer \/ ~microphone
       THEN /\ dres' = [op |-> "test_microphone", ret |-> FALSE]
            /\ UNCHANGED <<tpc, mic_holder, mic_contended>>
       ELSE IF mic_holder # {}
         THEN /\ dres' = [op |-> "test_microphone", ret |-> FALSE]
              /\ mic_contended' = TRUE
              /\ UNCHANGED <<tpc, mic_holder>>
         ELSE /\ mic_holder' = {t}
              /\ tpc' = [tpc EXCEPT ![t] = "tm_listen"]
              /\ mic_contended' =
                   (mic_contended \/ should_recalibrate(consecutive_failures))
              /\ dres' = [op |-> "test_microphone", ret |-> "none"]
  /\ UNCHANGED <<envVars, calVars, now, consecutive_failures, stats, loopVars,
                 tret, tstart, hostVars, qVars, cycleVars, cycles, speakVars>>

\* test_microphone: recognizer.listen(source, timeout=2, ...) and
\* recognize_google finish; True for a transcript or speech not understood,
\* False for silence or an error; the microphone's context is left
tm_listen(t) ==
  /\ tpc[t] = "tm_listen"
  /\ mic_holder' = mic_holder \ {t}
  /\ tpc' = [tpc EXCEPT ![t] = "idle"]
  /\ \E r \in BOOLEAN : dres' = [op |-> "test_microphone", ret |-> r]
  /\ UNCHANGED <<envVars, calVars, now, consecutive_failures, stats, loopVars,
                 tret, tstart, hostVars, qVars, cycleVars, cycles, mic_contended,
                 speakVars>>

\* what get_stats cannot do without: the statistics keys and the attributes
\* it reads
StatsKeysRead  == {"total_listens", "successful_recognitions", "wake_words_detected",
                   "failures", "calibrations", "avg_response_time"}
StatsAttrsRead == {"is_listening", "is_speaking"}

\* EnhancedAudioManager.get_stats: the report, or the KeyError /
\* AttributeError of the first lookup that fails
get_stats ==
  IF StatsKeysRead \subseteq stat_keys /\ StatsAttrsRead \subseteq attrs
    THEN [kind |-> "report", total_listens |-> stats.total_listens,
          keys |-> StatsKeysRead \cup {"success_rate", "wake_word_rate",
                     "consecutive_failures", "is_listening", "is_speaking",
                     "energy_threshold", "last_calibration"}]
    ELSE [kind |-> "raised", total_listens |-> 0, keys |-> {}]

\* a caller (test, monitoring) invokes get_stats
call_get_stats ==
  /\ dres' = [op |-> "get_stats", ret |-> get_stats]
  /\ UNCHANGED <<envVars, calVars, now, consecutive_failures, stats, loopVars,
                 taskVars, hostVars, qVars, cycleVars, cycles, mic_contended,
                 speakVars>>

\* the clock advances
Tick ==
  /\ now + TickStep <= MaxNow
  /\ now' = now + TickStep
  /\ UNCHANGED <<envVars, calVars, consecutive_failures, stats, loopVars,
                 taskVars, hostVars, qVars, histVars, speakVars>>

(* ---------------------------- command queue ---------------------------- *)
\* self.voice_queue.put(command) on the unbounded FIFO queue
queue_put(q, command) == Append(q, command)

\* variant of queue_get that hands out the head and leaves it queued
queue_get_peek(q) == [item |-> Head(q), rest |-> q]

\* variant of queue_get that hands out the newest item first
queue_get_newest(q) == [item |-> q[Len(q)], rest |-> SubSeq(q, 1, Len(q) - 1)]

\* self.voice_queue.get(...) on a non-empty queue: the item and what remains
queue_get(q) == [item |-> Head(q), rest |-> Tail(q)]

(* --------------------------- listening loop ---------------------------- *)
\* variant of while_test that never ends the loop
while_test_deaf(listening) == TRUE

\* while self.is_listening:
while_test(listening) == listening

\* _intelligent_listen_loop: the while test, the retry guard, and the call of
\* listen_once up to the start of the capture
loop_top(t) ==
  /\ t \in LoopThreads
  /\ tpc[t] = "loop_top"
  /\ IF ~while_test(is_listening)
       THEN /\ tpc' = [tpc EXCEPT ![t] = "dead"]
            /\ UNCHANGED <<tret, tstart, stats, calVars, mic_holder, consecutive_failures,
                           cycles, mic_contended>>
       ELSE IF consecutive_failures >= MAX_RETRIES
         THEN /\ tpc' = [tpc EXCEPT ![t] = "lp_wait"]
              /\ UNCHANGED <<tret, tstart, stats, calVars, mic_holder, consecutive_failures,
                             cycles, mic_contended>>
         ELSE /\ stats.total_listens < MaxListens
              /\ listen_once_begin(t)
  /\ UNCHANGED <<envVars, now, loopVars, hostVars, qVars, cycleVars, dres, speakVars>>

\* _intelligent_listen_loop: time.sleep(RETRY_DELAY * 2); continue
lp_wait(t) ==
  /\ tpc[t] = "lp_wait"
  /\ tpc' = [tpc EXCEPT ![t] = "loop_top"]
  /\ UNCHANGED <<envVars, calVars, now, consecutive_failures, stats, loopVars,
                 tret, tstart, mic_holder, hostVars, qVars, histVars, speakVars>>

\* the delay of the loop after a cycle without a command, in tenths of a
\* second: RETRY_DELAY, times (1 + consecutive_failures * 0.3) when the
\* counter is positive, at most 3.0 s
backoff_delay(cf) ==
  Min(IF cf > 0 THEN (RETRY_DELAY * (10 + cf * BackoffTenths)) \div 10
               ELSE RETRY_DELAY,
      DelayCap)

\* _intelligent_listen_loop after listen_once returned: put the command if
\* there is one and enter the sleep that ends the iteration (the local
\* command  is dead from here on)
loop_after(t) ==
  /\ tpc[t] = "lp_after"
  /\ tpc' = [tpc EXCEPT ![t] = "lp_sleep"]
  /\ tret' = [tret EXCEPT ![t] = RetNone("")]
  /\ IF tret[t].kind = "cmd"
       THEN /\ voice_queue' = queue_put(voice_queue, tret[t].cmd)
            /\ pushed' = Append(pushed, tret[t].cmd)
            /\ delay' = [delay EXCEPT ![t] = SuccessPause]
       ELSE /\ delay' = [delay EXCEPT ![t] = backoff_delay(consecutive_failures)]
            /\ UNCHANGED <<voice_queue, pushed>>
  /\ UNCHANGED <<envVars, calVars, now, consecutive_failures, stats, loopVars,
                 tstart, mic_holder, hostVars, cpc, cres, delivered, discarded, captured,
                 su_run, resp_total, wake_captured, callVars, speakVars>>

\* _intelligent_listen_loop: the sleep is over, back to the while test
lp_sleep(t) ==
  /\ tpc[t] = "lp_sleep"
  /\ tpc' = [tpc EXCEPT ![t] = "loop_top"]
  /\ delay' = [delay EXCEPT ![t] = 0]
  /\ UNCHANGED <<envVars, calVars, now, consecutive_failures, stats, loopVars,
                 tret, tstart, mic_holder, hostVars, qVars, captured, su_run,
                 resp_total, wake_captured, callVars, speakVars>>

Alive(t) == tpc[t] \notin {"unborn", "dead", "crashed"}

\* start_continuous_listening up to and including the is_listening test
start_check(h) ==
  /\ hpc[h] = "idle"
  /\ IF ~recognizer \/ ~microphone
       THEN /\ hres' = [hres EXCEPT ![h] = "unavailable"]
            /\ UNCHANGED hpc
       ELSE IF "is_listening" \notin attrs
         THEN /\ hres' = [hres EXCEPT ![h] = "raised"]
              /\ UNCHANGED hpc
         ELSE IF is_listening
           THEN /\ hres' = [hres EXCEPT ![h] = "ok"]
                /\ UNCHANGED hpc
           ELSE /\ hpc' = [hpc EXCEPT ![h] = "start_set"]
                /\ hres' = [hres EXCEPT ![h] = "ok"]
  /\ UNCHANGED <<envVars, calVars, now, consecutive_failures, stats, loopVars,
                 taskVars, qVars, histVars, speakVars>>

\* start_continuous_listening: is_listening = True, create and start the thread
start_set(h) ==
  /\ hpc[h] = "start_set"
  /\ \E t \in LoopThreads :
       /\ tpc[t] = "unborn"
       /\ \A u \in LoopThreads : tpc[u] = "unborn" => t <= u
       /\ tpc' = [tpc EXCEPT ![t] = "loop_top"]
       /\ listen_thread' = t
  /\ is_listening' = TRUE
  /\ hpc' = [hpc EXCEPT ![h] = "idle"]
  /\ hres' = [hres EXCEPT ![h] = "ok"]
  /\ UNCHANGED <<envVars, calVars, now, consecutive_failures, stats, tret,
                 tstart, mic_holder, qVars, histVars, speakVars>>

\* stop_continuous_listening up to the join
stop_continuous_listening(h) ==
  /\ hpc[h] = "idle"
  /\ IF "is_listening" \notin attrs
       THEN /\ hres' = [hres EXCEPT ![h] = "raised"]
            /\ UNCHANGED <<hpc, is_listening>>
       ELSE IF ~is_listening
         THEN /\ hres' = [hres EXCEPT ![h] = "ok"]
              /\ UNCHANGED <<hpc, is_listening>>
         ELSE /\ is_listening' = FALSE
              /\ hres' = [hres EXCEPT ![h] = "ok"]
              /\ hpc' = [hpc EXCEPT ![h] = IF listen_thread # 0 THEN "joining" ELSE "idle"]
  /\ UNCHANGED <<envVars, calVars, now, consecutive_failures, stats, listen_thread,
                 taskVars, qVars, histVars, speakVars>>

\* listen_thread.join(timeout=2.0) returns: the thread ended, or the timeout
\* elapsed while the thread is still inside a cycle
stop_join(h) ==
  /\ hpc[h] = "joining"
  /\ hpc' = [hpc EXCEPT ![h] = "idle"]
  /\ hres' = [hres EXCEPT ![h] = "ok"]
  /\ UNCHANGED <<envVars, calVars, now, consecutive_failures, stats, loopVars,
                 taskVars, qVars, histVars, speakVars>>

\* get_next_command(timeout) called by consumer c: voice_queue.get(
\* timeout=timeout); a timeout of None waits until an item arrives
get_next_command(c, timeout) ==
  /\ cpc[c] = "idle"
  /\ IF "voice_queue" \notin attrs
       THEN /\ cres' = [cres EXCEPT ![c] = "raised"]
            /\ UNCHANGED <<voice_queue, cpc, delivered>>
       ELSE IF voice_queue # <<>>
         THEN /\ cres' = [cres EXCEPT ![c] = "cmd"]
              /\ delivered' = Append(delivered, queue_get(voice_queue).item)
              /\ voice_queue' = queue_get(voice_queue).rest
              /\ UNCHANGED cpc
         ELSE IF timeout = "finite"
           THEN /\ cres' = [cres EXCEPT ![c] = "empty"]
                /\ UNCHANGED <<voice_queue, cpc, delivered>>
           ELSE /\ cpc' = [cpc EXCEPT ![c] = "blocked"]
                /\ cres' = [cres EXCEPT ![c] = "none"]
                /\ UNCHANGED <<voice_queue, delivered>>
  /\ UNCHANGED <<envVars, calVars, now, consecutive_failures, stats, loopVars,
                 taskVars, hostVars, pushed, discarded, histVars, speakVars>>

\* consumer c, blocked in voice_queue.get(), is woken by an item
get_wakeup(c) ==
  /\ cpc[c] = "blocked"
  /\ voice_queue # <<>>
  /\ cpc' = [cpc EXCEPT ![c] = "idle"]
  /\ cres' = [cres EXCEPT ![c] = "cmd"]
  /\ delivered' = Append(delivered, queue_get(voice_queue).item)
  /\ voice_queue' = queue_get(voice_queue).rest
  /\ UNCHANGED <<envVars, calVars, now, consecutive_failures, stats, loopVars,
                 taskVars, hostVars, pushed, discarded, histVars, speakVars>>

\* listen_thread.join(timeout=2.0) can return: the thread has ended, or it
\* is inside an operation that can outlast the 2 s (a capture of up to
\* LISTEN_TIMEOUT + PHRASE_TIMEOUT with its recognition, or a sleep)
join_returns(th) ==
  \/ th = 0
  \/ ~Alive(th)
  \/ tpc[th] \in {"lo_listen", "lo_pause", "lp_wait", "lp_sleep"}

\* cleanup(), first part: stop_continuous_listening() up to its join, which
\* is made only when is_listening was set and a thread exists
cleanup(h) ==
  /\ hpc[h] = "idle"
  /\ IF "is_listening" \notin attrs
       THEN /\ hres' = [hres EXCEPT ![h] = "raised"]
            /\ UNCHANGED <<hpc, is_listening>>
       ELSE /\ is_listening' = FALSE
            /\ hres' = [hres EXCEPT ![h] = "ok"]
            /\ hpc' = [hpc EXCEPT ![h] = IF is_listening /\ listen_thread # 0
                                          THEN "cleanup_join" ELSE "draining"]
  /\ UNCHANGED <<envVars, calVars, now, consecutive_failures, stats, listen_thread,
                 taskVars, qVars, histVars, speakVars>>

\* cleanup(), second part: the join returns, tts_engine.stop(), then the
\* queue is emptied with get_nowait() until it is found empty
cleanup_drain(h) ==
  /\ \/ hpc[h] = "draining"
     \/ hpc[h] = "cleanup_join" /\ join_returns(listen_thread)
  /\ hpc' = [hpc EXCEPT ![h] = "idle"]
  /\ amPlaying' = IF tts_engine THEN {} ELSE amPlaying
  /\ IF "voice_queue" \notin attrs
       THEN /\ hres' = [hres EXCEPT ![h] = "raised"]
            /\ UNCHANGED <<voice_queue, discarded>>
       ELSE /\ hres' = [hres EXCEPT ![h] = "ok"]
            /\ discarded' = discarded \o voice_queue
            /\ voice_queue' = <<>>
  /\ UNCHANGED <<envVars, calVars, now, consecutive_failures, stats, loopVars,
                 taskVars, cpc, cres, pushed, delivered, histVars, is_speaking,
                 spc, sprio, playing, tts_engine, amspc, amres, interrupted>>

(* ------------------------- event system calls -------------------------- *)
\* what the event system leaves alone
evFrame == <<mgrVars, probe_in, probe_out, calVars, now, consecutive_failures,
             stats, loopVars, taskVars, hostVars, qVars, histVars, speakVars>>

\* task e calls subscribe, unsubscribe or emit from outside any callback
ev_call(e, op, ty, cb) ==
  /\ estack[e] = <<>>
  /\ op = "subscribe" => SubscribedOrPending(ty) < MaxSubsOf(ty)
  /\ op = "emit" <=> e = "speech"
  /\ op = "emit" => cb = "none"
  /\ op # "emit" => cb \in Subscribable(ty)
  /\ estack' = [estack EXCEPT ![e] = <<Frame(op, ty, cb)>>]
  /\ UNCHANGED <<listeners, ev_lock, evFrame>>

\* with self._lock: the lock is taken when it is free
ev_acquire(e) ==
  /\ estack[e] # <<>>
  /\ Top(e).pc = "lock"
  /\ ev_lock = "free"
  /\ ev_lock' = e
  /\ estack' = [estack EXCEPT ![e] = SetTop(@, [Top(e) EXCEPT !.pc = "locked"])]
  /\ UNCHANGED <<listeners, evFrame>>

\* the body under the lock, and the release: subscribe appends, unsubscribe
\* removes, emit copies the list of the event type
ev_locked(e) ==
  /\ estack[e] # <<>>
  /\ Top(e).pc = "locked"
  /\ ev_lock' = "free"
  /\ LET f == Top(e)
     IN CASE f.op = "subscribe" ->
               /\ listeners' = [listeners EXCEPT ![f.type] = Append(@, f.cb)]
               /\ estack' = [estack EXCEPT ![e] = return_to_caller(@)]
          [] f.op = "unsubscribe" ->
               /\ listeners' = [listeners EXCEPT ![f.type] = list_remove(@, f.cb)]
               /\ estack' = [estack EXCEPT ![e] = return_to_caller(@)]
          [] f.op = "emit" ->
               /\ estack' = [estack EXCEPT ![e] =
                    SetTop(@, [f EXCEPT !.pc = "deliver", !.i = 1,
                                        !.snap = listeners[f.type]])]
               /\ UNCHANGED listeners
  /\ UNCHANGED evFrame

\* emit outside the lock: the next callback is called, or the loop is over
\* and emit returns
ev_deliver(e) ==
  /\ estack[e] # <<>>
  /\ Top(e).pc = "deliver"
  /\ LET f  == Top(e)
         ls == delivery_list(f.snap, listeners[f.type])
     IN IF f.i > Len(ls)
          THEN estack' = [estack EXCEPT ![e] = return_to_caller(@)]
          ELSE LET cb == ls[f.i]
                   g  == [f EXCEPT !.log = Append(@, cb)]
               IN    estack' = [estack EXCEPT ![e] =
                       CASE cb = "plain" ->
                              SetTop(@, [g EXCEPT !.i = after_callback(@, "returned")])
                         [] cb = "raises" ->
                              SetTop(@, [g EXCEPT !.i = after_callback(@, "raised")])
                         [] cb = "subscribes" ->
                              IF SubscribedOrPending(f.type) < MaxSubsOf(f.type)
                                THEN Append(SetTop(@, g), Frame("subscribe", f.type, "plain"))
                                ELSE SetTop(@, [g EXCEPT !.i = after_callback(@, "returned")])
                         [] cb = "unsubscribes" ->
                              Append(SetTop(@, g), Frame("unsubscribe", f.type, "plain"))
                         [] cb = "emits" ->
                              Append(SetTop(@, g), Frame("emit", "speech_ended", "none"))]
  /\ UNCHANGED <<listeners, ev_lock, evFrame>>

EventNext ==
  \/ \E e \in Emitters, op \in {"subscribe", "unsubscribe", "emit"},
        ty \in EventTypes, cb \in Callbacks \cup {"none"} :
        ev_call(e, op, ty, cb)
  \/ \E e \in Emitters : ev_acquire(e)
  \/ \E e \in Emitters : ev_locked(e)
  \/ \E e \in Emitters : ev_deliver(e)

(* --------------------------- speech output ----------------------------- *)
vars == <<speakVars, pipeVars>>

SpeakInit ==
  /\ is_speaking = FALSE
  /\ spc = [s \in Speakers |-> "idle"]
  /\ sprio = [s \in Speakers |-> FALSE]
  /\ playing = {}
  /\ tts_engine \in BOOLEAN
  /\ amspc = [s \in Speakers |-> "idle"]
  /\ amres = [s \in Speakers |-> "none"]
  /\ amPlaying = {}
  /\ interrupted = [s \in Speakers |-> {}]

\* GideonCore.speak: optional stop of the current utterance, then the
\* worker thread is started unconditionally.
GideonCore_speak(s, priority) ==
  /\ spc[s] \in {"idle", "done", "crashed"}
  /\ playing' = IF priority /\ is_speaking THEN {} ELSE playing
  /\ spc' = [spc EXCEPT ![s] = "spawned"]
  /\ sprio' = [sprio EXCEPT ![s] = priority]
  /\ interrupted' =
       [x \in Speakers |->
          IF x # s THEN interrupted[x] \ {s}
          ELSE IF priority /\ is_speaking
                 THEN {o \in Speakers \ {s} : spc[o] \in {"spawned", "flagged", "playing"}}
                 ELSE {}]
  /\ UNCHANGED <<is_speaking, tts_engine, amspc, amres, amPlaying, pipeVars>>

\* _speak, first statements: is_speaking = True; emit('speech_started')
speak_set_flag(s) ==
  /\ spc[s] = "spawned"
  /\ is_speaking' = TRUE
  /\ spc' = [spc EXCEPT ![s] = "flagged"]
  /\ UNCHANGED <<sprio, playing, tts_engine, amspc, amres, amPlaying, interrupted, pipeVars>>

\* _speak: tts.say(text); tts.runAndWait() starts the playback, or the
\* engine raises and the exception leaves the thread (no handler).
speak_play(s) ==
  /\ spc[s] = "flagged"
  /\ \/ /\ playing' = playing \cup {s}
        /\ spc' = [spc EXCEPT ![s] = "playing"]
     \/ /\ playing' = playing
        /\ spc' = [spc EXCEPT ![s] = "crashed"]
  /\ UNCHANGED <<is_speaking, sprio, tts_engine, amspc, amres, amPlaying, interrupted, pipeVars>>

\* _speak: runAndWait() returns; is_speaking = False; emit('speech_ended')
speak_end(s) ==
  /\ spc[s] = "playing"
  /\ playing' = playing \ {s}
  /\ is_speaking' = FALSE
  /\ spc' = [spc EXCEPT ![s] = "done"]
  /\ UNCHANGED <<sprio, tts_engine, amspc, amres, amPlaying, interrupted, pipeVars>>

\* EnhancedAudioManager.speak, up to the start of runAndWait()
AudioManager_speak(s) ==
  /\ amspc[s] = "idle"
  /\ IF ~tts_engine
       THEN /\ amres' = [amres EXCEPT ![s] = "false"]
            /\ UNCHANGED <<amspc, amPlaying>>
       ELSE \/ /\ amspc' = [amspc EXCEPT ![s] = "playing"]
               /\ amPlaying' = amPlaying \cup {s}
               /\ amres' = [amres EXCEPT ![s] = "none"]
            \/ /\ amres' = [amres EXCEPT ![s] = "false"]
               /\ UNCHANGED <<amspc, amPlaying>>
  /\ UNCHANGED <<is_speaking, spc, sprio, playing, tts_engine, interrupted, pipeVars>>

\* EnhancedAudioManager.speak: runAndWait() returns, return True
AudioManager_speak_end(s) ==
  /\ amspc[s] = "playing"
  /\ amspc' = [amspc EXCEPT ![s] = "idle"]
  /\ amPlaying' = amPlaying \ {s}
  /\ amres' = [amres EXCEPT ![s] = "true"]
  /\ UNCHANGED <<is_speaking, spc, sprio, playing, tts_engine, interrupted, pipeVars>>

SpeakNext ==
  \/ \E s \in Speakers, p \in BOOLEAN : GideonCore_speak(s, p)
  \/ \E s \in Speakers : speak_set_flag(s)
  \/ \E s \in Speakers : speak_play(s)
  \/ \E s \in Speakers : speak_end(s)
  \/ \E s \in Speakers : AudioManager_speak(s)
  \/ \E s \in Speakers : AudioManager_speak_end(s)

(* ------------------- functions applied on their own -------------------- *)
\* no function is applied on its own
NoProbe == [fn |-> "none"]
\* answers of recognize_google for the three languages, each any outcome
LanguageProbes ==
  {[fn |-> "language_loop", res |-> res] : res \in [1..Len(Languages) -> RecOutcomes]}

\* what an application leaves unchanged
applyFrame == <<mgrVars, evVars, probe_in, calVars, now, consecutive_failures, stats,
                loopVars, taskVars, hostVars, qVars, histVars, speakVars>>

\* the language loop of listen_once run on the answers of the service
apply_language_loop ==
  /\ probe_in.fn = "language_loop"
  /\ probe_out = NoProbe
  /\ probe_out' = [fn |-> "language_loop", r |-> language_loop(probe_in.res, 1)]
  /\ UNCHANGED applyFrame

\* answers of recognize_google for which listen_once builds a VoiceCommand
CommandProbes ==
  {[fn |-> "command_language", res |-> res] : res \in [1..Len(Languages) -> RecOutcomes]}

\* the language field of the VoiceCommand that listen_once builds on the
\* answers of the service ("" when it builds none)
apply_command_language ==
  /\ probe_in.fn = "command_language"
  /\ probe_out = NoProbe
  /\ probe_out' =
       [fn |-> "command_language",
        r |-> IF first_returning(probe_in.res) = 0 THEN ""
              ELSE command_language(first_returning(probe_in.res))]
  /\ UNCHANGED applyFrame

\* texts the detector is applied to on its own
TxHeyGideon == <<"h", "e", "y", " ", "g", "i", "d", "e", "o", "n", " ", "t",
  "u", "r", "n", " ", "o", "n", " ", "l", "i", "g", "h", "t", "s">>
TxHeyGideo == <<"h", "e", "y", " ", "g", "i", "d", "e", "o", " ", "t", "u",
  "r", "n", " ", "o", "n", " ", "l", "i", "g", "h", "t", "s">>
TxUnrelated == <<"c", "o", "m", "p", "l", "e", "t", "e", "l", "y", " ", "u",
  "n", "r", "e", "l", "a", "t", "e", "d", " ", "t", "e", "x", "t">>
TxShout == <<" ", "G", "I", "D", "E", "O", "N", " ">>
TxGidoen == <<"g", "i", "d", "o", "e", "n">>
\* phrases a detector is configured with (lower case, no outer blanks, as
\* in AudioConfig.WAKE_WORDS)
PhGideon == <<"g", "i", "d", "e", "o", "n">>
PhOn == <<"o", "n">>
PhHeyGideon == <<"h", "e", "y", " ", "g", "i", "d", "e", "o", "n">>
PhJarvis == <<"j", "a", "r", "v", "i", "s">>
PhGideos == <<"g", "i", "d", "e", "o", "s">>
DetectTexts == {TxHeyGideon, TxHeyGideo, TxUnrelated, TxShout, TxGidoen,
                TxGideon, TxGideo, TxOn, <<>>}
DetectWordLists == {<<PhGideon>>, <<PhOn, PhGideon>>, <<PhGideon, PhOn>>,
                    <<PhHeyGideon, PhGideon, PhJarvis>>, <<PhGideos, PhGideon>>,
                    <<PhJarvis, PhGideon>>}
DetectProbes ==
  {[fn |-> "detect_wake_word", words |-> w, text |-> x] :
     w \in DetectWordLists, x \in DetectTexts}

\* WakeWordDetector(words, WAKE_WORD_THRESHOLD).detect_wake_word(text)
apply_detect_wake_word ==
  /\ probe_in.fn = "detect_wake_word"
  /\ probe_out = NoProbe
  /\ probe_out' = [fn |-> "detect_wake_word",
                    r |-> detect_wake_word(DetectorWords(probe_in.words), probe_in.text)]
  /\ UNCHANGED applyFrame

(* ------------------------------- claims -------------------------------- *)
\* the step of task t in which its listen_once cycle learns what the
\* recognition produced
CycleEnds(t, why) ==
  /\ tpc[t] = "lo_listen"
  /\ tpc'[t] # "lo_listen"
  /\ tret'[t].why = why

\* C1: speak calls are mutually exclusive: in every reachable state at most
\* one playback is active, in GideonCore and in EnhancedAudioManager alike
C1_SpeakExclusive ==
  /\ Cardinality(playing) <= 1
  /\ Cardinality(amPlaying) <= 1

OneProducer == Cardinality({t \in LoopThreads : tpc[t] # "unborn"}) <= 1

C4_NoEscape ==
  \A t \in Tasks : tret[t].kind # "raised" /\ tpc[t] # "crashed"

C6_RecalibrateExact ==
  should_recalibrate(consecutive_failures)
    <=> (\/ now - last_calibration > AUTO_CALIBRATE_INTERVAL
         \/ consecutive_failures >= 3)

C6_Witness ==
  /\ consecutive_failures = 3
  /\ now - last_calibration <= AUTO_CALIBRATE_INTERVAL
  /\ should_recalibrate(consecutive_failures)
  /\ \E t \in Tasks : tpc[t] = "lo_pause"

\* C7: a cycle whose recognition ends in "not understood" or "service
\* unavailable" raises the consecutive-failure counter by exactly one
C7_FailureCounted ==
  [][\A t \in Tasks :
       (CycleEnds(t, "not_understood") \/ CycleEnds(t, "service_unavailable"))
         => consecutive_failures' = consecutive_failures + 1]_vars

\* C8: a cycle that ends in silence returns no command, leaves the
\* consecutive-failure counter and the failure statistics as they were, and
\* leaves recognizer and microphone available and the microphone released
C8_SilenceHarmless ==
  [][\A t \in Tasks :
       CycleEnds(t, "silence") =>
         /\ tret'[t].kind = "none"
         /\ tpc'[t] \in {"idle", "lp_after"}
         /\ consecutive_failures' = consecutive_failures
         /\ stats'.failures = stats.failures
         /\ stats'.failed_recognitions = stats.failed_recognitions
         /\ recognizer' /\ microphone'
         /\ t \notin mic_holder']_vars

C8_Witness ==
  /\ consecutive_failures = 1
  /\ stats.failures = 1
  /\ \E t \in Tasks : tret[t].why = "silence" /\ tpc[t] = "idle"

\* C9: a cycle whose recognition produced a transcript leaves the
\* consecutive-failure counter at 0 and returns the scored command
C9_SuccessResets ==
  [][\A t \in Tasks :
       CycleEnds(t, "transcript") =>
         /\ consecutive_failures' = 0
         /\ tret'[t].kind = "cmd"]_vars

\* the loop threads that hold a command they have not yet pushed
Holding == {t \in LoopThreads : tpc[t] = "lp_after" /\ tret[t].kind = "cmd"}

C12_ResetAtMax ==
  consecutive_failures >= MAX_RETRIES => \E t \in Tasks : tpc[t] = "lo_pause"

OccursIn(w, x) ==
  \E k \in 0..(Len(x) - Len(w)) :
    \A j \in 1..Len(w) : LowerChar(x[k + j]) = LowerChar(w[j])

\* the configured phrases, by position, that occur in the text of the probe
ProbeHits == {i \in 1..Len(probe_in.words) : OccursIn(probe_in.words[i], probe_in.text)}

\* C14: when the transcript contains a configured phrase, case ignored,
\* detect_wake_word reports a match with the first such phrase in list
\* order, and not as a fuzzy match
C14_ExactMatch ==
  (probe_out.fn = "detect_wake_word" /\ ProbeHits # {}) =>
    LET f == CHOOSE i \in ProbeHits : \A j \in ProbeHits : i <= j
    IN /\ probe_out.r.is_wake
       /\ probe_out.r.phrase = probe_in.words[f]
       /\ ~probe_out.r.fuzzy

C14_Witness ==
  /\ probe_out.fn = "detect_wake_word"
  /\ probe_in.words = <<PhOn, PhGideon>>
  /\ probe_in.text = TxHeyGideon
  /\ probe_out.r.is_wake
  /\ probe_out.r.phrase = PhOn

\* similarity of configured phrase i and the text of the probe, as the
\* detector computes it
ProbeRatio(i) == ratio(probe_in.words[i], Strip(Lower(probe_in.text)))

\* C15: when no phrase occurs in the transcript, detect_wake_word reports a
\* match exactly when the largest similarity of a phrase and the transcript
\* is at least the threshold, with a phrase of largest similarity and its
\* score; 'hey gideo turn on lights' against ['gideon'] is a match and
\* 'completely unrelated text' is not
C15_FuzzyMatch ==
  (probe_out.fn = "detect_wake_word" /\ ProbeHits = {} /\ probe_in.text # <<>>) =>
    LET idx  == 1..Len(probe_in.words)
        best == CHOOSE i \in idx : \A j \in idx : FracGE(ProbeRatio(i), ProbeRatio(j))
    IN /\ probe_out.r.is_wake <=> FracGE(ProbeRatio(best), <<3, 4>>)
       /\ probe_out.r.is_wake =>
            /\ probe_out.r.fuzzy
            /\ \E i \in idx : /\ probe_out.r.phrase = probe_in.words[i]
                               /\ FracGE(ProbeRatio(i), ProbeRatio(best))
            /\ probe_out.r.score = Hundredths(ProbeRatio(best))
       /\ (probe_in.text = TxHeyGideo /\ probe_in.words = <<PhGideon>>)
            => probe_out.r.is_wake
       /\ probe_in.text = TxUnrelated => ~probe_out.r.is_wake

\* C16: after k >= 1 successful recognitions the stored avg_response_time
\* is the arithmetic mean of their response times
C16_AverageIsMean ==
  stats.successful_recognitions > 0 =>
    /\ "avg_response_time" \in stat_keys
    /\ stats.avg_response_time[1] * stats.successful_recognitions
         = resp_total * stats.avg_response_time[2]

C18_PriorityNoOverlap ==
  \A s \in Speakers : s \in playing => playing \cap interrupted[s] = {}

\* how many times command x occurs in the sequence q
Count(q, x) == Cardinality({i \in 1..Len(q) : q[i] = x})
\* the commands ever enqueued
Enqueued == {pushed[i] : i \in 1..Len(pushed)}

C20_PopBounded ==
  \A c \in Consumers : (cpc[c] = "blocked") ~> (cpc[c] = "idle")

\* C21: with the recognizer or the microphone missing, no operation crashes
\* or changes anything: auto_calibrate_microphone and test_microphone return
\* False and the threshold stays, listen_once returns no command,
\* start_continuous_listening refuses and starts no thread, and threshold,
\* calibration time, counters, statistics and queue are left as they were
C21_Degrades ==
  [][(~recognizer \/ ~microphone) =>
       /\ UNCHANGED <<energy_threshold, last_calibration, consecutive_failures,
                      stats, cycles, voice_queue, pushed, is_listening,
                      listen_thread, mic_holder>>
       /\ \A t \in LoopThreads : tpc'[t] = "unborn"
       /\ \A t \in DirectCallers : tpc'[t] = "idle" /\ tret'[t].kind = "none"
       /\ \A h \in Hosts : hpc'[h] = "idle" /\ hres'[h] \in {"ok", "unavailable"}
       /\ dres'.op \in {"auto_calibrate_microphone", "test_microphone"}
            => dres'.ret = FALSE]_vars

C21_Witness ==
  /\ ~recognizer
  /\ \E t \in DirectCallers : tret[t].why = "unavailable"
  /\ \E h \in Hosts : hres[h] = "unavailable"
  /\ dres = [op |-> "auto_calibrate_microphone", ret |-> FALSE]
  /\ energy_threshold = ENERGY_THRESHOLD
  /\ now > StartTime

\* C22: whatever operations came before it, a get_stats call returns a
\* report, without raising, whose total_listens is >= 0 and which contains
\* avg_response_time
C22_StatsReport ==
  dres.op = "get_stats" =>
    /\ dres.ret.kind = "report"
    /\ dres.ret.total_listens >= 0
    /\ "avg_response_time" \in dres.ret.keys

\* C23: the microphone is held exactly by the tasks inside a capture, by at
\* most one of them, it is released when listen_once or test_microphone
\* leaves its capture on any path, and no task ever enters the microphone's
\* context while it is already entered, neither beside another task nor
\* nested in its own call
C23_MicScoped ==
  /\ Cardinality(mic_holder) <= 1
  /\ \A t \in Tasks : t \in mic_holder <=> tpc[t] \in {"lo_listen", "tm_listen"}
  /\ ~mic_contended

\* C24: is_speaking is true whenever a playback is in progress, and false
\* whenever none is and no _speak thread is between setting the flag and
\* starting its playback; this also after the engine raised and when
\* several speak calls overlap
C24_FlagTracksPlayback ==
  /\ playing # {} => is_speaking
  /\ (playing = {} /\ \A s \in Speakers : spc[s] # "flagged") => ~is_speaking

C26_EveryCycleCounted ==
  /\ [](stats.total_listens = cycles)
  /\ [][/\ cycles' # cycles => stats'.total_listens = stats.total_listens + 1
        /\ stats'.total_listens # stats.total_listens => cycles' = cycles + 1]_vars

C26_Witness ==
  /\ cycles = MaxListens
  /\ captured >= 1
  /\ stats.failures >= 1
  /\ \E t \in Tasks : tret[t].why = "silence"

\* C27: whenever no listen_once call is under way (every call made so far
\* has ended), 0 <= consecutive_failures < MAX_RETRIES; the loop's guard
\* consecutive_failures >= MAX_RETRIES is never found true; and no cycle
\* starts with consecutive_failures >= 3
C27_CounterBelowMax ==
  /\ []((\A t \in Tasks : tpc[t] \notin {"lo_listen", "lo_pause"})
          => (0 <= consecutive_failures /\ consecutive_failures < MAX_RETRIES))
  /\ [][/\ \A t \in LoopThreads : tpc[t] = "loop_top" => tpc'[t] # "lp_wait"
        /\ cycles' # cycles => consecutive_failures < 3]_vars

\* C28: in every reachable state wake_words_detected <=
\* successful_recognitions <= total_listens, and wake_words_detected is the
\* number of VoiceCommands constructed with is_wake_word = True
C28_CounterOrder ==
  /\ stats.wake_words_detected <= stats.successful_recognitions
  /\ stats.successful_recognitions <= stats.total_listens
  /\ stats.wake_words_detected = wake_captured

C28_Witness ==
  /\ stats.wake_words_detected = 1
  /\ stats.successful_recognitions = 2
  /\ stats.total_listens = 3
  /\ captured = 2

Init == SpeakInit /\ PipeInit /\ probe_in = NoProbe /\ probe_out = NoProbe

\* one listen_once cycle, run by whichever task is inside it
ListenOnceNext ==
  \/ \E t \in Tasks : lo_listen(t)
  \/ \E t \in Tasks : lo_pause(t)

\* direct use of the manager: listen_once and calibration called by a task
ListenNext ==
  \/ ListenOnceNext
  \/ \E t \in DirectCallers : call_listen_once(t)
  \/ call_auto_calibrate
  \/ Tick

\* the same within one clock reading, with test_microphone and get_stats
DirectNext ==
  \/ ListenOnceNext
  \/ \E t \in DirectCallers : call_listen_once(t)
  \/ call_auto_calibrate
  \/ \E t \in DirectCallers : call_test_microphone(t)
  \/ \E t \in DirectCallers : tm_listen(t)
  \/ call_get_stats

\* continuous listening: the loop threads, their starters and one consumer
LoopNext ==
  \/ ListenOnceNext
  \/ \E t \in LoopThreads : loop_top(t)
  \/ \E t \in LoopThreads : lp_wait(t)
  \/ \E t \in LoopThreads : loop_after(t)
  \/ \E t \in LoopThreads : lp_sleep(t)
  \/ \E h \in Hosts : start_check(h)
  \/ \E h \in Hosts : start_set(h)
  \/ \E h \in Hosts : stop_continuous_listening(h)
  \/ \E h \in Hosts : stop_join(h)
  \/ \E to \in {"none", "finite"} : get_next_command(1, to)
  \/ get_wakeup(1)

\* speech output alone; the pipeline plays no part
SpeakOnlyInit == Init /\ ~recognizer /\ attrs = {} /\ stat_keys = InitStatKeys
SpecSpeak == SpeakOnlyInit /\ [][SpeakNext]_vars
\* the speech engine plays no part in the specifications of the pipeline
PipeOnlyInit == Init /\ tts_engine = TRUE
\* the manager used directly
SpecListen == PipeOnlyInit /\ [][ListenNext]_vars
SpecDirect == PipeOnlyInit /\ [][DirectNext]_vars
\* continuous listening, started within AUTO_CALIBRATE_INTERVAL of a
\* calibration that the constructor completed
LoopInit ==
  /\ PipeOnlyInit
  /\ microphone => (last_calibration = now /\ energy_threshold = 640)
SpecLoop == LoopInit /\ [][LoopNext]_vars
\* a manager built without recognizer and microphone, used directly and asked
\* to start listening
DegradedInit == PipeOnlyInit /\ ~recognizer
DegradedNext ==
  \/ \E t \in DirectCallers : call_listen_once(t)
  \/ call_auto_calibrate
  \/ \E t \in DirectCallers : call_test_microphone(t)
  \/ \E h \in Hosts : start_check(h)
  \/ call_get_stats
  \/ Tick
SpecDegraded == DegradedInit /\ [][DegradedNext]_vars
\* C30: emit calls exactly the callbacks that were subscribed to the event
\* type when it took its copy, each subscription once and in subscription
\* order, whether or not an earlier callback raised, a callback subscribed,
\* unsubscribed or emitted, or another task changed the list meanwhile; the
\* lock is held by no task while its callbacks run, so a call made by a
\* callback never waits for a lock its own task holds.
EmitFrames(e) ==
  {k \in 1..Len(estack[e]) :
     estack[e][k].op = "emit" /\ estack[e][k].pc = "deliver"}
EmitReturns(e) ==
  /\ estack[e] # <<>>
  /\ Top(e).op = "emit"
  /\ Top(e).pc = "deliver"
  /\ Len(estack'[e]) < Len(estack[e])
C30_EmitSnapshot ==
  /\ [](\A e \in Emitters :
         /\ \A k \in EmitFrames(e) :
              LET f == estack[e][k]
              IN /\ Len(f.log) <= Len(f.snap)
                 /\ f.log = SubSeq(f.snap, 1, Len(f.log))
                 /\ Len(f.log) = IF k < Len(estack[e]) THEN f.i ELSE f.i - 1
         /\ estack[e] # <<>> /\ Top(e).pc = "lock" => ev_lock # e
         /\ ev_lock = e => estack[e] # <<>> /\ Top(e).pc = "locked")
  /\ [][\A e \in Emitters :
          /\ EmitReturns(e) => Top(e).log = Top(e).snap
          /\ (/\ estack[e] # <<>>
              /\ Top(e).op = "emit"
              /\ Top(e).pc = "locked"
              /\ estack'[e] # estack[e])
               => estack'[e][Len(estack[e])].snap = listeners[Top(e).type]
         ]_vars
\* an emit has called a raising callback and then one that subscribed a
\* callback, after another task had unsubscribed from the same event, and the
\* loop is over
C30_Witness ==
  /\ Len(estack["speech"]) = 1
  /\ LET f == estack["speech"][1]
     IN /\ f.op = "emit" /\ f.pc = "deliver"
        /\ f.snap = <<"raises", "subscribes">>
        /\ f.log = f.snap
        /\ f.i > Len(f.snap)
        /\ listeners[f.type] = <<"raises", "plain">>

\* the event system alone, called by several tasks and by its own callbacks
EventOnlyInit ==
  /\ PipeOnlyInit /\ ~recognizer /\ ~microphone
  /\ attrs = {} /\ stat_keys = InitStatKeys
SpecEvents == EventOnlyInit /\ [][EventNext]_vars
\* functions of the program applied on their own to arguments drawn at the
\* start; the manager itself plays no part
ApplyInit ==
  /\ SpeakInit /\ tts_engine = TRUE
  /\ PipeInit /\ ~recognizer /\ attrs = {} /\ stat_keys = InitStatKeys
  /\ probe_in \in LanguageProbes \cup DetectProbes \cup CommandProbes
  /\ probe_out = NoProbe
ApplyNext ==
  \/ apply_language_loop
  \/ apply_detect_wake_word
  \/ apply_command_language
SpecApply == ApplyInit /\ [][ApplyNext]_vars
\* continuous listening without the consumer, with every loop thread
\* scheduled again and again: captures end by their timeouts, sleeps end
ThreadStep(t) ==
  \/ loop_top(t)
  \/ lp_wait(t)
  \/ loop_after(t)
  \/ lp_sleep(t)
  \/ lo_listen(t)
  \/ lo_pause(t)
CancelNext ==
  \/ \E t \in LoopThreads : ThreadStep(t)
  \/ \E h \in Hosts : start_check(h)
  \/ \E h \in Hosts : start_set(h)
  \/ \E h \in Hosts : stop_continuous_listening(h)
  \/ \E h \in Hosts : stop_join(h)
SpecCancel ==
  /\ LoopInit
  /\ [][CancelNext]_vars
  /\ \A t \in LoopThreads : WF_vars(ThreadStep(t))
\* the command queue with its producer, several consumers and cleanup(),
\* on a manager that has every attribute and statistics key
QueueInit ==
  /\ LoopInit
  /\ recognizer
  /\ microphone
  /\ attrs = LateAttrs
  /\ stat_keys = InitStatKeys \cup LateStatKeys
QueueNext ==
  \/ \E t \in LoopThreads : ThreadStep(t)
  \/ start_check(1)
  \/ start_set(1)
  \/ cleanup(1)
  \/ cleanup_drain(1)
  \/ \E c \in Consumers, to \in {"none", "finite"} : get_next_command(c, to)
  \/ \E c \in Consumers : get_wakeup(c)
SpecQueue == QueueInit /\ [][QueueNext]_vars
\* the same, with every loop thread and every waiting consumer scheduled
\* again and again: a consumer waiting in get() is woken once an item is
\* there for it
SpecPop ==
  /\ QueueInit
  /\ [][QueueNext]_vars
  /\ \A t \in LoopThreads : WF_vars(ThreadStep(t))
  /\ \A c \in Consumers : WF_vars(get_wakeup(c))
\* everything together
Next == SpeakNext \/ ListenNext \/ LoopNext \/ ApplyNext \/ QueueNext \/ DegradedNext
          \/ DirectNext \/ EventNext
Spec == Init /\ [][Next]_vars
====
